---------------------------- MODULE Spec2Model ----------------------------
(***************************************************************************)
(* Model of the chunking and context-budgeting engine of the rag-system    *)
(* tools: ChunkSplitter (src/tools/chunk_splitter.py) and                  *)
(* RAGQuery.build_rag_context (src/tools/query_rag.py), with the tools     *)
(* that write to the database: CLILogger (src/tools/cli_logger.py) and     *)
(* import_chunks_to_db (src/tools/chunk_splitter.py).                      *)
(*                                                                         *)
(* Text is a sequence of one-character strings over the alphabet           *)
(* {"a", "b", "#", " ", "\n"}; the string operations of the code           *)
(* (str.split, str.strip, re.split, f-strings) are computed on it.         *)
(***************************************************************************)
EXTENDS Integers, Sequences, FiniteSets, TLC

(***************************************************************************)
(* Bounds of the model.                                                    *)
(***************************************************************************)
\* longest document, in lines
MaxLines == 3
\* largest max_chunk_tokens a splitter is configured with
MaxT == 5
\* longest message sequence of a session
MaxMsgs == 3
\* longest ranked candidate list handed to build_rag_context
MaxResults == 3
\* largest token_est of a ranked candidate
MaxTok == 2
\* largest max_tokens of build_rag_context
MaxBudget == 3
\* longest document, in lines, where the splitter's configuration or a
\* second call varies as well
MaxShortLines == 2
\* longest message sequence where the splitter's configuration varies
MaxShortMsgs == 1

\* the defaults of ChunkSplitter.__init__
DefaultMin == 50
DefaultOverlap == 50

(***************************************************************************)
(* The state: the frame of the running call.                               *)
(***************************************************************************)
VARIABLES
    op,                \* the operation called: "plain", "md", "sess"
    max_chunk_tokens,  \* self.max_chunk_tokens
    min_chunk_tokens,  \* self.min_chunk_tokens
    overlap_tokens,    \* self.overlap_tokens
    text,              \* the argument text / markdown
    session_id,        \* the argument session_id
    session_found,     \* whether table sessions holds a row with that id
    messages,          \* the rows of table messages for the session
    pc,                \* position in the running call
    conn_open,         \* whether the sqlite connection is open
    sections,          \* header_pattern.split(markdown)
    i,                 \* the index into sections
    level,             \* sections[i] of the section being split
    heading,           \* sections[i + 1] of the section being split
    paragraphs,        \* the paragraphs the loop has still to visit
    current_chunk,     \* the buffer (current_chunk / current_chunk_text)
    current_tokens,    \* the running counter
    ord_counter,
    chunks,            \* the list the call returns
    m,                 \* how many messages the message loop has handled
    sub_chunks,        \* the sub-chunks of the message still to be taken over
    sub_i,             \* enumerate's index of the next sub-chunk
    built,             \* history: for each chunk of chunks, what it was built from
    cur_paras,         \* history: the paragraphs appended to the buffer
    cur_seed,          \* history: whether the buffer starts with a header prefix
    results,           \* build_rag_context: the rows fts_search returned
    max_tokens,        \* build_rag_context: the argument max_tokens
    rpc,               \* build_rag_context: position in the call
    r,                 \* build_rag_context: how many results the loop has taken
    context_parts,
    total_tokens,
    sources,
    context_str,       \* the returned string
    call2              \* the frame of a second, concurrent split_plaintext call

VARIABLES
    tbl_sessions,      \* table sessions, committed: row k has id k
    tbl_messages,      \* table messages, committed, in insertion order
    tbl_chunks,        \* table chunks, committed, in insertion order
    db_lock,           \* the connection holding the write lock, 0 if none
    lg,                \* CLILogger.log_message: the frame of each logger's call
    ses,               \* CLILogger.interactive_session: the frame of the call
    imp                \* import_chunks_to_db: the frame of the call

(***************************************************************************)
(* Python values.                                                          *)
(***************************************************************************)
\* Python's None where the code holds an Optional[str]
None == <<"<None>">>

SP == " "
NL == "\n"
IsSpace(c) == c \in {SP, NL}

\* the elements of sequence s, from index pos to the end
Tail_(s, pos) == SubSeq(s, pos, Len(s))

\* s.join(parts) with an empty separator
RECURSIVE Concat(_)
Concat(parts) ==
    IF parts = <<>> THEN <<>> ELSE Head(parts) \o Concat(Tail(parts))

(***************************************************************************)
(* str.split() / str.strip()                                               *)
(***************************************************************************)
\* len(text.split()): the number of maximal runs of non-whitespace
WordCount(s) ==
    Cardinality({pos \in 1..Len(s) :
        /\ ~IsSpace(s[pos])
        /\ (pos = 1 \/ IsSpace(s[pos - 1]))})

\* text.strip()
strip(s) ==
    LET idx == {pos \in 1..Len(s) : ~IsSpace(s[pos])}
    IN  IF idx = {} THEN <<>>
        ELSE LET lo == CHOOSE pos \in idx : \A j \in idx : pos <= j
                 hi == CHOOSE pos \in idx : \A j \in idx : j <= pos
             IN  SubSeq(s, lo, hi)

(***************************************************************************)
(* ChunkSplitter.estimate_tokens / compute_hash                            *)
(***************************************************************************)
\* int(words * 1.3): the float product truncated toward zero; it equals
\* floor(13 * words / 10) for every word count from 0 to 2 * 10^6
estimate_tokens_rounded(s) == (13 * WordCount(s) + 5) \div 10
estimate_tokens(s) == (13 * WordCount(s)) \div 10

\* hashlib.sha256(text.encode('utf-8')).hexdigest(): a digest that differs
\* for different texts (collision resistance taken as injectivity)
compute_hash(s) == <<"sha256:">> \o s

(***************************************************************************)
(* re.split(r'\n\n+', text)                                             *)
(***************************************************************************)
\* first index >= pos at which s holds no newline (Len+1 if none)
RECURSIVE SkipNewlines(_, _)
SkipNewlines(s, pos) ==
    IF pos <= Len(s) /\ s[pos] = NL THEN SkipNewlines(s, pos + 1) ELSE pos

RECURSIVE SplitParagraphs(_)
SplitParagraphs(s) ==
    LET starts == {pos \in 1..(Len(s) - 1) : s[pos] = NL /\ s[pos + 1] = NL}
    IN  IF starts = {} THEN <<s>>
        ELSE LET pos == CHOOSE k \in starts : \A j \in starts : k <= j
                 j == SkipNewlines(s, pos)
             IN  <<SubSeq(s, 1, pos - 1)>> \o SplitParagraphs(Tail_(s, j))

(***************************************************************************)
(* header_pattern = re.compile(r'^(#{2,3})\s+(.+)$', re.MULTILINE)         *)
(***************************************************************************)
RECURSIVE CountRun(_, _, _)
\* length of the run of characters of set cs that starts at index pos
CountRun(s, pos, cs) ==
    IF pos <= Len(s) /\ s[pos] \in cs THEN 1 + CountRun(s, pos + 1, cs) ELSE 0

\* index of the last character of the line that holds index pos
RECURSIVE LineEnd(_, _)
LineEnd(s, pos) ==
    IF pos + 1 <= Len(s) /\ s[pos + 1] # NL THEN LineEnd(s, pos + 1) ELSE pos

\* the match of header_pattern that starts at index pos, or the empty set.
\* '^' asks for a line start; '#{2,3}' followed by whitespace asks for a run
\* of exactly two or three '#'; '\s+' is greedy and backtracks until '.+'
\* finds a character that is not a newline; '.+' then runs to the line end.
HeaderMatchAt(s, pos) ==
    LET h  == CountRun(s, pos, {"#"})
        ws == CountRun(s, pos + h, {SP, NL})
        ks == {k \in 1..ws : pos + h + k <= Len(s) /\ s[pos + h + k] # NL}
    IN  IF /\ (pos = 1 \/ s[pos - 1] = NL)
           /\ h \in {2, 3}
           /\ ks # {}
        THEN LET k == CHOOSE x \in ks : \A y \in ks : y <= x
                 q == pos + h + k
                 e == LineEnd(s, q)
             IN  {[start |-> pos, end |-> e,
                   level |-> SubSeq(s, pos, pos + h - 1),
                   heading |-> SubSeq(s, q, e)]}
        ELSE {}

\* header_pattern.split(markdown): [pre, level1, heading1, content1, ...]
RECURSIVE SplitHeaders(_)
SplitHeaders(markdown) ==
    LET starts == {pos \in 1..Len(markdown) : HeaderMatchAt(markdown, pos) # {}}
    IN  IF starts = {} THEN <<markdown>>
        ELSE LET pos == CHOOSE k \in starts : \A j \in starts : k <= j
                 mt == CHOOSE x \in HeaderMatchAt(markdown, pos) : TRUE
             IN  <<SubSeq(markdown, 1, pos - 1), mt.level, mt.heading>>
                 \o SplitHeaders(Tail_(markdown, mt.end + 1))

(***************************************************************************)
(* Chunk (dataclass) and the metadata a message-derived chunk carries.     *)
(***************************************************************************)
\* metadata=None
NoMetadata ==
    [isNone |-> TRUE, session_id |-> 0, message_step |-> 0,
     message_role |-> "", sub_chunk |-> <<>>]

\* the dict built for a message's chunk; sub_chunk is <<>> when the key is
\* absent and <<n>> when it is present
Metadata(sid, step, role, sub_chunk) ==
    [isNone |-> FALSE, session_id |-> sid, message_step |-> step,
     message_role |-> role, sub_chunk |-> sub_chunk]

Chunk(hd, s, ord, kind, token_est, hash, metadata) ==
    [heading |-> hd, text |-> s, ord |-> ord, kind |-> kind,
     token_est |-> token_est, hash |-> hash, metadata |-> metadata]

(***************************************************************************)
(* The paragraph accumulator shared by split_plaintext and the over-budget *)
(* branch of split_markdown.                                               *)
(***************************************************************************)
\* if current_tokens + para_tokens > self.max_chunk_tokens
Overflows_overlap(self, tokens, para_tokens) ==
    tokens + para_tokens + self.overlap_tokens > self.max_chunk_tokens
Overflows_fits(self, tokens, para_tokens) ==
    /\ tokens + para_tokens > self.max_chunk_tokens
    /\ para_tokens <= self.max_chunk_tokens
Overflows(self, tokens, para_tokens) ==
    tokens + para_tokens > self.max_chunk_tokens

\* if current_chunk.strip():
NonBlank_always(s) == TRUE
NonBlank(s) == strip(s) # <<>>

\* ord_counter += 1
NextOrd_stuck(ord) == ord
NextOrd(ord) == ord + 1

\* the Chunk a flush builds from the buffer: its text is the stripped buffer,
\* token_est and hash are computed from the buffer as it stands (the running
\* counter current_tokens is in scope and is not used)
FlushChunk_counter(hd, buf, tokens, ord, kind) ==
    Chunk(hd, strip(buf), ord, kind,
          tokens, compute_hash(buf), NoMetadata)
FlushChunk_first_titled(hd, buf, tokens, ord, kind) ==
    Chunk(IF buf # <<>> /\ buf[1] = "#" THEN hd ELSE None, strip(buf), ord, kind,
          estimate_tokens(buf), compute_hash(buf), NoMetadata)
FlushChunk(hd, buf, tokens, ord, kind) ==
    Chunk(hd, strip(buf), ord, kind,
          estimate_tokens(buf), compute_hash(buf), NoMetadata)

\* One iteration of "for para in paragraphs" on the frame
\* st = [current_chunk, current_tokens, ord_counter, chunks].
ParaStep(st, para, hd, kind, self) ==
    LET para_tokens == estimate_tokens(para)
    IN  IF Overflows(self, st.current_tokens, para_tokens)
        THEN LET flush == NonBlank(st.current_chunk)
             IN  [current_chunk  |-> para \o <<NL, NL>>,
                  current_tokens |-> para_tokens,
                  ord_counter    |-> IF flush THEN NextOrd(st.ord_counter)
                                     ELSE st.ord_counter,
                  chunks         |-> IF flush
                                     THEN Append(st.chunks,
                                            FlushChunk(hd, st.current_chunk,
                                                       st.current_tokens,
                                                       st.ord_counter, kind))
                                     ELSE st.chunks]
        ELSE [current_chunk  |-> st.current_chunk \o para \o <<NL, NL>>,
              current_tokens |-> st.current_tokens + para_tokens,
              ord_counter    |-> st.ord_counter,
              chunks         |-> st.chunks]

\* "Flush remaining" after the loop
FinalFlush_none(st, hd, kind) == st
FinalFlush(st, hd, kind) ==
    IF NonBlank(st.current_chunk)
    THEN [st EXCEPT !.chunks = Append(st.chunks,
                       FlushChunk(hd, st.current_chunk, st.current_tokens,
                                  st.ord_counter, kind)),
                    !.ord_counter = NextOrd(st.ord_counter)]
    ELSE st

RECURSIVE ParaLoop(_, _, _, _, _)
ParaLoop(st, paras, hd, kind, self) ==
    IF paras = <<>> THEN st
    ELSE ParaLoop(ParaStep(st, Head(paras), hd, kind, self),
                  Tail(paras), hd, kind, self)

\* split_plaintext as one call (the call split_session_messages makes)
split_plaintext(s, kind, self) ==
    FinalFlush(ParaLoop([current_chunk |-> <<>>, current_tokens |-> 0,
                         ord_counter |-> 0, chunks |-> <<>>],
                        SplitParagraphs(s), None, kind, self),
               None, kind).chunks

(***************************************************************************)
(* Inputs.                                                                 *)
(***************************************************************************)
\* the lines documents are made of: blank, whitespace-only, one word, two
\* words, a level-2 header, a level-3 header and a bare marker
Lines ==
    { <<>>, <<SP>>, <<"a">>, <<"b", SP, "b">>,
      <<"#", "#", SP, "a">>, <<"#", "#", "#", SP, "b">>, <<"#", "#">> }

\* "\n".join(lines)
RECURSIVE JoinLines(_)
JoinLines(ls) ==
    IF Len(ls) = 1 THEN ls[1] ELSE ls[1] \o <<NL>> \o JoinLines(Tail(ls))

\* every document of 1..MaxLines lines
Docs == UNION { {JoinLines(ls) : ls \in [1..n -> Lines]} : n \in 1..MaxLines }

\* the values of max_chunk_tokens
Budgets == 0..MaxT

\* the roles CLILogger.log_message documents
Roles == {"user", "assistant", "system"}

\* message contents: empty, whitespace-only, one word, and two paragraphs of
\* two words each
MsgContents ==
    { <<>>, <<SP>>, <<"a">>, <<"b", SP, "b", NL, NL, "b", SP, "b">> }

\* the rows of one session in table messages, ORDER BY step: the step of a
\* row is its position (CLILogger.log_message numbers them 1, 2, ...)
SessionRows ==
    UNION { [1..n -> [role : Roles, content : MsgContents]] : n \in 0..MaxMsgs }

\* str(step) inside an f-string
StepStr(step) == <<"0", "1", "2", "3", "4", "5", "6", "7", "8", "9">>[step + 1]

splitVars ==
    <<op, max_chunk_tokens, text, session_id, session_found, messages, pc,
      conn_open, sections, i, level, heading, paragraphs, current_chunk,
      current_tokens, ord_counter, chunks, m, sub_chunks, sub_i, built,
      cur_paras, cur_seed>>

ragVars ==
    <<results, max_tokens, rpc, r, context_parts, total_tokens, sources,
      context_str>>

\* the fields of the ChunkSplitter object that no method reads
selfVars == <<min_chunk_tokens, overlap_tokens>>

\* the database and the frames of the calls that write to it
dbVars == <<tbl_sessions, tbl_messages, tbl_chunks, db_lock, lg, ses, imp>>

vars == <<splitVars, ragVars, selfVars, dbVars, call2>>

\* self: the ChunkSplitter object (lines 76-78)
ChunkSplitter(max, min, overlap) ==
    [max_chunk_tokens |-> max, min_chunk_tokens |-> min,
     overlap_tokens |-> overlap]

Self == ChunkSplitter(max_chunk_tokens, min_chunk_tokens, overlap_tokens)

\* no call of build_rag_context is under way
RagIdle ==
    /\ results = <<>> /\ max_tokens = 0 /\ rpc = "idle" /\ r = 0
    /\ context_parts = <<>> /\ total_tokens = 0 /\ sources = <<>>
    /\ context_str = <<>>

\* the frame of the paragraph accumulator
Frame ==
    [current_chunk |-> current_chunk, current_tokens |-> current_tokens,
     ord_counter |-> ord_counter, chunks |-> chunks]

\* what a chunk was built from (history only): the kind of step, whether
\* the buffer began with a header prefix, the paragraphs appended, the step
\* of the message and the index of the section in sections
Built(from, seed, paras, msg, sec) ==
    [from |-> from, seed |-> seed, paras |-> paras, msg |-> msg, sec |-> sec]

Idle ==
    /\ sections = <<>> /\ i = 0 /\ level = <<>> /\ heading = None
    /\ paragraphs = <<>> /\ current_chunk = <<>> /\ current_tokens = 0
    /\ ord_counter = 0 /\ chunks = <<>> /\ m = 0 /\ sub_chunks = <<>>
    /\ sub_i = 0 /\ built = <<>> /\ cur_paras = <<>> /\ cur_seed = FALSE
    /\ conn_open = FALSE

InitPlain ==
    /\ op = "plain" /\ text \in Docs \cup {<<>>}
    /\ session_id = 0 /\ session_found = FALSE /\ messages = <<>>

InitMd ==
    /\ op = "md" /\ text \in Docs \cup {<<>>}
    /\ session_id = 0 /\ session_found = FALSE /\ messages = <<>>

InitSess ==
    /\ op = "sess" /\ text = <<>> /\ session_id = 1
    /\ session_found \in BOOLEAN
    /\ messages \in (IF session_found THEN SessionRows ELSE {<<>>})

\* no second call is under way
NoCall2 ==
    [pc |-> "idle", self |-> ChunkSplitter(0, 0, 0), text |-> <<>>,
     paragraphs |-> <<>>, current_chunk |-> <<>>, current_tokens |-> 0,
     ord_counter |-> 0, chunks |-> <<>>, began_while |-> "",
     ended_while |-> ""]

\* the loggers (connections) that may call log_message
Loggers == {1, 2}

\* no call of log_message is under way on a logger
LogIdle ==
    [pc |-> "idle", session_id |-> 0, role |-> "", content |-> <<>>,
     next_step |-> 0]

\* no call of interactive_session is under way
NoInteractive ==
    [pc |-> "idle", session_id |-> 0, step_counter |-> 0, role |-> "",
     user_input |-> <<>>, exc |-> "", reads |-> 0]

\* no call of import_chunks_to_db is under way
NoImport ==
    [pc |-> "idle", doc_id |-> 0, chunks |-> <<>>, k |-> 0, count |-> 0,
     pending |-> <<>>, conn_open |-> FALSE]

\* an empty database that no tool is writing to
DbIdle ==
    /\ tbl_sessions = <<>> /\ tbl_messages = <<>> /\ tbl_chunks = <<>>
    /\ db_lock = 0
    /\ lg = [l \in Loggers |-> LogIdle]
    /\ ses = NoInteractive
    /\ imp = NoImport

\* ChunkSplitter(max_chunk_tokens=T): the other two fields at their defaults
InitDefaults ==
    /\ min_chunk_tokens = DefaultMin
    /\ overlap_tokens = DefaultOverlap

Init ==
    /\ max_chunk_tokens \in Budgets
    /\ InitDefaults
    /\ pc = "call"
    /\ (InitPlain \/ InitMd \/ InitSess)
    /\ Idle
    /\ RagIdle
    /\ DbIdle
    /\ call2 = NoCall2

\* every document of 1..MaxShortLines lines
ShortDocs ==
    UNION { {JoinLines(ls) : ls \in [1..n -> Lines]} : n \in 1..MaxShortLines }

\* the rows of a session of up to MaxShortMsgs messages
ShortRows ==
    UNION { [1..n -> [role : Roles, content : MsgContents]] : n \in 0..MaxShortMsgs }

\* values of min_chunk_tokens and overlap_tokens a caller passes
Mins == {0, DefaultMin}
Overlaps == {0, DefaultOverlap}

\* the arguments of one call on short inputs
InitShort ==
    /\ \/ /\ op \in {"plain", "md"} /\ text \in ShortDocs
          /\ session_id = 0 /\ session_found = FALSE /\ messages = <<>>
       \/ /\ op = "sess" /\ text = <<>> /\ session_id = 1
          /\ session_found \in BOOLEAN
          /\ messages \in (IF session_found THEN ShortRows ELSE {<<>>})
    /\ pc = "call"
    /\ Idle
    /\ RagIdle
    /\ DbIdle

\* ChunkSplitter(max_chunk_tokens, min_chunk_tokens, overlap_tokens) and one
\* call on it
InitConfig ==
    /\ max_chunk_tokens \in Budgets
    /\ min_chunk_tokens \in Mins
    /\ overlap_tokens \in Overlaps
    /\ InitShort
    /\ call2 = NoCall2

(***************************************************************************)
(* split_plaintext                                                         *)
(***************************************************************************)
\* lines 229-234
PlainBegin ==
    /\ pc = "call" /\ op = "plain"
    /\ paragraphs' = SplitParagraphs(text)
    /\ current_chunk' = <<>> /\ current_tokens' = 0
    /\ ord_counter' = 0 /\ chunks' = <<>>
    /\ pc' = "plain_loop"
    /\ UNCHANGED <<ragVars, selfVars, dbVars, call2, op, max_chunk_tokens, text,
                   session_id, session_found,
                   messages, conn_open, sections, i, level, heading, m,
                   sub_chunks, sub_i, built, cur_paras, cur_seed>>

\* one iteration of the loop of a paragraph accumulator (lines 236-256,
\* 170-189), with the history of what went into the buffer
ParaIteration(hd, kind) ==
    LET para == Head(paragraphs)
        st   == ParaStep(Frame, para, hd, kind, Self)
        over == Overflows(Self, current_tokens, estimate_tokens(para))
    IN  /\ current_chunk' = st.current_chunk
        /\ current_tokens' = st.current_tokens
        /\ ord_counter' = st.ord_counter
        /\ chunks' = st.chunks
        /\ paragraphs' = Tail(paragraphs)
        /\ built' = IF Len(st.chunks) > Len(chunks)
                    THEN Append(built, Built("paras", cur_seed, cur_paras, 0, i))
                    ELSE built
        /\ cur_paras' = IF over THEN <<para>> ELSE Append(cur_paras, para)
        /\ cur_seed' = IF over THEN FALSE ELSE cur_seed

PlainPara ==
    /\ pc = "plain_loop" /\ paragraphs # <<>>
    /\ ParaIteration(None, "doc")
    /\ UNCHANGED <<ragVars, selfVars, dbVars, call2, op, max_chunk_tokens, text,
                   session_id, session_found,
                   messages, pc, conn_open, sections, i, level, heading, m,
                   sub_chunks, sub_i>>

\* lines 258-269: flush the remaining buffer and return
PlainFinish ==
    /\ pc = "plain_loop" /\ paragraphs = <<>>
    /\ LET st == FinalFlush(Frame, None, "doc")
       IN  /\ chunks' = st.chunks
           /\ ord_counter' = st.ord_counter
           /\ built' = IF Len(st.chunks) > Len(chunks)
                       THEN Append(built, Built("paras", cur_seed, cur_paras, 0, i))
                       ELSE built
    /\ pc' = "done"
    /\ UNCHANGED <<ragVars, selfVars, dbVars, call2, op, max_chunk_tokens, text,
                   session_id, session_found,
                   messages, conn_open, sections, i, level, heading,
                   paragraphs, current_chunk, current_tokens, m, sub_chunks,
                   sub_i, cur_paras, cur_seed>>

(***************************************************************************)
(* split_markdown                                                          *)
(***************************************************************************)
\* f"{level} {heading}\n\n"
HeaderPrefix(lv, hd) == lv \o <<SP>> \o hd \o <<NL, NL>>

\* lines 143-150: the chunk of the content before the first header
PrologueChunk(stripped, ord) ==
    Chunk(None, stripped, ord, "doc", estimate_tokens(stripped),
          compute_hash(stripped), NoMetadata)

\* lines 204-211: the chunk of a section within the limit
SectionChunk(hd, full_text, token_est, ord) ==
    Chunk(hd, full_text, ord, "doc", token_est, compute_hash(full_text),
          NoMetadata)

\* lines 125-137
MdBegin ==
    /\ pc = "call" /\ op = "md"
    /\ sections' = SplitHeaders(text)
    /\ i' = 0 /\ ord_counter' = 0 /\ chunks' = <<>>
    /\ pc' = "md_loop"
    /\ UNCHANGED <<ragVars, selfVars, dbVars, call2, op, max_chunk_tokens, text,
                   session_id, session_found,
                   messages, conn_open, level, heading, paragraphs,
                   current_chunk, current_tokens, m, sub_chunks, sub_i, built,
                   cur_paras, cur_seed>>

\* lines 139-152: the pass of the while loop with i == 0
MdPrologue ==
    /\ pc = "md_loop" /\ i < Len(sections) /\ i = 0
    /\ LET stripped == strip(sections[1])
       IN  IF NonBlank(sections[1])
           THEN /\ chunks' = Append(chunks, PrologueChunk(stripped, ord_counter))
                /\ ord_counter' = NextOrd(ord_counter)
                /\ built' = Append(built, Built("prologue", FALSE, <<>>, 0, 0))
           ELSE UNCHANGED <<chunks, ord_counter, built>>
    /\ i' = i + 1
    /\ UNCHANGED <<ragVars, selfVars, dbVars, call2, op, max_chunk_tokens, text,
                   session_id, session_found,
                   messages, pc, conn_open, sections, level, heading,
                   paragraphs, current_chunk, current_tokens, m, sub_chunks,
                   sub_i, cur_paras, cur_seed>>

\* lines 153-168, 202-214: a pass of the while loop with i > 0; a section
\* within the limit becomes one chunk, a larger one starts its paragraph loop
MdSection ==
    /\ pc = "md_loop" /\ i < Len(sections) /\ i # 0
    /\ IF i + 2 < Len(sections)
       THEN LET lv        == sections[i + 1]
                hd        == sections[i + 2]
                content   == strip(sections[i + 3])
                full_text == lv \o <<SP>> \o hd \o <<NL, NL>> \o content
                token_est == estimate_tokens(full_text)
            IN  IF token_est > max_chunk_tokens
                THEN /\ paragraphs' = SplitParagraphs(content)
                     /\ current_chunk' = HeaderPrefix(lv, hd)
                     /\ current_tokens' = estimate_tokens(HeaderPrefix(lv, hd))
                     /\ level' = lv /\ heading' = hd
                     /\ cur_paras' = <<>> /\ cur_seed' = TRUE
                     /\ pc' = "md_paras"
                     /\ UNCHANGED <<i, chunks, ord_counter, built>>
                ELSE /\ chunks' = Append(chunks,
                                    SectionChunk(hd, full_text, token_est, ord_counter))
                     /\ ord_counter' = NextOrd(ord_counter)
                     /\ built' = Append(built, Built("section", TRUE, <<>>, 0, i))
                     /\ i' = i + 3
                     /\ UNCHANGED <<pc, paragraphs, current_chunk,
                                    current_tokens, level, heading, cur_paras,
                                    cur_seed>>
       ELSE /\ i' = i + 3
            /\ UNCHANGED <<pc, paragraphs, current_chunk, current_tokens,
                           level, heading, cur_paras, cur_seed, chunks,
                           ord_counter, built>>
    /\ UNCHANGED <<ragVars, selfVars, dbVars, call2, op, max_chunk_tokens, text,
                   session_id, session_found,
                   messages, conn_open, sections, m, sub_chunks, sub_i>>

\* lines 170-189
MdPara ==
    /\ pc = "md_paras" /\ paragraphs # <<>>
    /\ ParaIteration(heading, "doc")
    /\ UNCHANGED <<ragVars, selfVars, dbVars, call2, op, max_chunk_tokens, text,
                   session_id, session_found,
                   messages, pc, conn_open, sections, i, level, heading, m,
                   sub_chunks, sub_i>>

\* lines 191-201, 214: flush the remaining buffer of the section
MdSectionFlush ==
    /\ pc = "md_paras" /\ paragraphs = <<>>
    /\ LET st == FinalFlush(Frame, heading, "doc")
       IN  /\ chunks' = st.chunks
           /\ ord_counter' = st.ord_counter
           /\ built' = IF Len(st.chunks) > Len(chunks)
                       THEN Append(built, Built("paras", cur_seed, cur_paras, 0, i))
                       ELSE built
    /\ i' = i + 3
    /\ pc' = "md_loop"
    /\ UNCHANGED <<ragVars, selfVars, dbVars, call2, op, max_chunk_tokens, text,
                   session_id, session_found,
                   messages, conn_open, sections, level, heading, paragraphs,
                   current_chunk, current_tokens, m, sub_chunks, sub_i,
                   cur_paras, cur_seed>>

\* line 216
MdReturn ==
    /\ pc = "md_loop" /\ ~(i < Len(sections))
    /\ pc' = "done"
    /\ UNCHANGED <<ragVars, selfVars, dbVars, call2, op, max_chunk_tokens, text,
                   session_id, session_found,
                   messages, conn_open, sections, i, level, heading,
                   paragraphs, current_chunk, current_tokens, ord_counter,
                   chunks, m, sub_chunks, sub_i, built, cur_paras, cur_seed>>

(***************************************************************************)
(* split_session_messages                                                  *)
(***************************************************************************)
\* kind = 'ai' if role == 'assistant' else 'note'
KindOfRole_user(role) == IF role = "user" THEN "note" ELSE "ai"
KindOfRole(role) == IF role = "assistant" THEN "ai" ELSE "note"

\* f"Message {step} ({role})"
MessageHeading(step, role) == <<"Message ", StepStr(step), " (", role, ")">>

\* lines 350-362: the single chunk of a message within the limit
MessageChunk(sid, step, role, content, token_est, ord) ==
    Chunk(MessageHeading(step, role), content, ord, KindOfRole(role),
          token_est, compute_hash(content), Metadata(sid, step, role, <<>>))

\* line 339: chunk.ord = ord_counter
SubChunkOrd_kept(chunk, ord) == chunk.ord
SubChunkOrd(chunk, ord) == ord

\* lines 339-345: the sub-chunk with its ord and metadata assigned
TakenOver_ord_only(chunk, sid, step, role, idx, ord) ==
    [chunk EXCEPT !.ord = SubChunkOrd(chunk, ord)]
TakenOver(chunk, sid, step, role, idx, ord) ==
    [chunk EXCEPT !.ord = SubChunkOrd(chunk, ord),
                  !.metadata = Metadata(sid, step, role, <<idx>>)]

\* lines 291-321: connect, look the session up, read its messages, close.
\* An unknown session raises ValueError before conn.close() is reached.
SessBegin ==
    /\ pc = "call" /\ op = "sess"
    /\ IF ~session_found
       THEN /\ pc' = "raised" /\ conn_open' = TRUE
            /\ UNCHANGED <<chunks, ord_counter, m>>
       ELSE /\ pc' = "sess_loop" /\ conn_open' = FALSE
            /\ chunks' = <<>> /\ ord_counter' = 0 /\ m' = 0
    /\ UNCHANGED <<ragVars, selfVars, dbVars, call2, op, max_chunk_tokens, text,
                   session_id, session_found,
                   messages, sections, i, level, heading, paragraphs,
                   current_chunk, current_tokens, sub_chunks, sub_i, built,
                   cur_paras, cur_seed>>

\* lines 324-337, 348-363: one message; within the limit it becomes one
\* chunk, otherwise split_plaintext is called on its content
SessMessage ==
    /\ pc = "sess_loop" /\ m < Len(messages)
    /\ LET msg       == messages[m + 1]
           step      == m + 1
           token_est == estimate_tokens(msg.content)
       IN  IF token_est > max_chunk_tokens
           THEN /\ sub_chunks' = split_plaintext(msg.content, KindOfRole(msg.role),
                                                 Self)
                /\ sub_i' = 0
                /\ pc' = "sess_sub"
                /\ UNCHANGED <<chunks, ord_counter, m, built>>
           ELSE /\ chunks' = Append(chunks,
                               MessageChunk(session_id, step, msg.role,
                                            msg.content, token_est, ord_counter))
                /\ ord_counter' = NextOrd(ord_counter)
                /\ built' = Append(built, Built("message", FALSE, <<>>, step, 0))
                /\ m' = m + 1
                /\ UNCHANGED <<pc, sub_chunks, sub_i>>
    /\ UNCHANGED <<ragVars, selfVars, dbVars, call2, op, max_chunk_tokens, text,
                   session_id, session_found,
                   messages, conn_open, sections, i, level, heading,
                   paragraphs, current_chunk, current_tokens, cur_paras,
                   cur_seed>>

\* lines 338-347: one pass of "for i, chunk in enumerate(sub_chunks)"
SessSub ==
    /\ pc = "sess_sub" /\ sub_chunks # <<>>
    /\ LET msg == messages[m + 1]
       IN  chunks' = Append(chunks,
                        TakenOver(Head(sub_chunks), session_id, m + 1, msg.role,
                                  sub_i, ord_counter))
    /\ ord_counter' = NextOrd(ord_counter)
    /\ built' = Append(built, Built("sub", FALSE, <<>>, m + 1, 0))
    /\ sub_chunks' = Tail(sub_chunks)
    /\ sub_i' = sub_i + 1
    /\ UNCHANGED <<ragVars, selfVars, dbVars, call2, op, max_chunk_tokens, text,
                   session_id, session_found,
                   messages, pc, conn_open, sections, i, level, heading,
                   paragraphs, current_chunk, current_tokens, m, cur_paras,
                   cur_seed>>

\* the end of the enumerate loop: on to the next message
SessSubEnd ==
    /\ pc = "sess_sub" /\ sub_chunks = <<>>
    /\ m' = m + 1
    /\ pc' = "sess_loop"
    /\ UNCHANGED <<ragVars, selfVars, dbVars, call2, op, max_chunk_tokens, text,
                   session_id, session_found,
                   messages, conn_open, sections, i, level, heading,
                   paragraphs, current_chunk, current_tokens, ord_counter,
                   chunks, sub_chunks, sub_i, built, cur_paras, cur_seed>>

\* lines 365-376
SessReturn ==
    /\ pc = "sess_loop" /\ ~(m < Len(messages))
    /\ pc' = "done"
    /\ UNCHANGED <<ragVars, selfVars, dbVars, call2, op, max_chunk_tokens, text,
                   session_id, session_found,
                   messages, conn_open, sections, i, level, heading,
                   paragraphs, current_chunk, current_tokens, ord_counter,
                   chunks, m, sub_chunks, sub_i, built, cur_paras, cur_seed>>

(***************************************************************************)
(* The three methods as whole calls: what each returns from its arguments  *)
(* when nothing else runs.                                                 *)
(***************************************************************************)
\* the while loop of split_markdown (lines 138-214) from index k on, with
\* st = [ord_counter, chunks]
RECURSIVE MdLoop(_, _, _, _)
MdLoop(secs, k, st, self) ==
    IF ~(k < Len(secs)) THEN st
    ELSE IF k = 0
    THEN MdLoop(secs, 1,
                IF NonBlank(secs[1])
                THEN [ord_counter |-> NextOrd(st.ord_counter),
                      chunks |-> Append(st.chunks,
                                   PrologueChunk(strip(secs[1]), st.ord_counter))]
                ELSE st,
                self)
    ELSE IF k + 2 < Len(secs)
    THEN LET lv        == secs[k + 1]
             hd        == secs[k + 2]
             content   == strip(secs[k + 3])
             full_text == lv \o <<SP>> \o hd \o <<NL, NL>> \o content
             token_est == estimate_tokens(full_text)
             fr        == FinalFlush(
                             ParaLoop([current_chunk |-> HeaderPrefix(lv, hd),
                                       current_tokens |->
                                           estimate_tokens(HeaderPrefix(lv, hd)),
                                       ord_counter |-> st.ord_counter,
                                       chunks |-> st.chunks],
                                      SplitParagraphs(content), hd, "doc", self),
                             hd, "doc")
         IN  MdLoop(secs, k + 3,
                    IF token_est > self.max_chunk_tokens
                    THEN [ord_counter |-> fr.ord_counter, chunks |-> fr.chunks]
                    ELSE [ord_counter |-> NextOrd(st.ord_counter),
                          chunks |-> Append(st.chunks,
                                       SectionChunk(hd, full_text, token_est,
                                                    st.ord_counter))],
                    self)
    ELSE MdLoop(secs, k + 3, st, self)

\* split_markdown as one call
split_markdown(markdown, self) ==
    MdLoop(SplitHeaders(markdown), 0, [ord_counter |-> 0, chunks |-> <<>>],
           self).chunks

\* the loop "for step, role, content in messages" (lines 324-363) from row
\* k + 1 on, with st = [ord_counter, chunks]
RECURSIVE MessageLoop(_, _, _, _, _)
MessageLoop(rows, k, st, sid, self) ==
    IF ~(k < Len(rows)) THEN st
    ELSE LET msg       == rows[k + 1]
             step      == k + 1
             token_est == estimate_tokens(msg.content)
             subs      == split_plaintext(msg.content, KindOfRole(msg.role), self)
         IN  MessageLoop(rows, k + 1,
                IF token_est > self.max_chunk_tokens
                THEN [ord_counter |-> st.ord_counter + Len(subs),
                      chunks |-> st.chunks \o
                          [j \in 1..Len(subs) |->
                              TakenOver(subs[j], sid, step, msg.role, j - 1,
                                        st.ord_counter + j - 1)]]
                ELSE [ord_counter |-> NextOrd(st.ord_counter),
                      chunks |-> Append(st.chunks,
                                   MessageChunk(sid, step, msg.role, msg.content,
                                                token_est, st.ord_counter))],
                sid, self)

\* split_session_messages as one call on a session that exists
split_session_messages(rows, sid, self) ==
    MessageLoop(rows, 0, [ord_counter |-> 0, chunks |-> <<>>], sid, self).chunks

(***************************************************************************)
(* RAGQuery.build_rag_context (src/tools/query_rag.py)                     *)
(***************************************************************************)
\* the values of column token_est: <<>> is NULL, <<n>> is n
TokenEsts == {<<>>} \cup {<<n>> : n \in 0..MaxTok}

\* the row fts_search returns at rank k
ResultRow(k, hd, token_est) ==
    [chunk_id |-> 10 + k, heading |-> hd, text |-> <<"t", StepStr(k)>>,
     token_est |-> token_est, doc_title |-> <<"d", StepStr(k)>>,
     module |-> <<"m">>, source |-> <<"s", StepStr(k)>>]

\* the ranked lists fts_search can return (up to MaxResults rows)
ResultLists ==
    UNION { { [k \in 1..n |-> ResultRow(k, f[k][1], f[k][2])] :
                f \in [1..n -> {None, <<"h">>} \X TokenEsts] } :
            n \in 0..MaxResults }

\* the values of max_tokens
ContextBudgets == (-1)..MaxBudget

\* result['token_est'] or 0
ChunkTokens(result) ==
    IF result.token_est = <<>> THEN 0 ELSE result.token_est[1]

\* if total_tokens + chunk_tokens > max_tokens
ContextOverflows_alone(total, chunk_tokens, limit) == chunk_tokens > limit
ContextOverflows_strict(total, chunk_tokens, limit) == total + chunk_tokens >= limit
ContextOverflows(total, chunk_tokens, limit) == total + chunk_tokens > limit

\* f"## {heading}\n\n{text}\n\n" with heading = result['heading'] or "(no heading)"
FormatBlock(result) ==
    LET hd == IF result.heading = None \/ result.heading = <<>>
              THEN <<"(no heading)">> ELSE result.heading
    IN  <<"#", "#", SP>> \o hd \o <<NL, NL>> \o result.text \o <<NL, NL>>

\* lines 218-224
SourceOf_first(result, all) ==
    [chunk_id |-> all[1].chunk_id, doc_title |-> all[1].doc_title,
     module |-> all[1].module, heading |-> all[1].heading,
     source |-> all[1].source]
SourceOf(result, all) ==
    [chunk_id |-> result.chunk_id, doc_title |-> result.doc_title,
     module |-> result.module, heading |-> result.heading,
     source |-> result.source]

InitRag ==
    /\ op = "rag" /\ pc = "idle" /\ max_chunk_tokens = 0 /\ text = <<>>
    /\ InitDefaults /\ call2 = NoCall2
    /\ session_id = 0 /\ session_found = FALSE /\ messages = <<>>
    /\ Idle
    /\ DbIdle
    /\ results \in ResultLists
    /\ max_tokens \in ContextBudgets
    /\ rpc = "call" /\ r = 0
    /\ context_parts = <<>> /\ total_tokens = 0 /\ sources = <<>>
    /\ context_str = <<>>

\* lines 196-202
RagBegin ==
    /\ rpc = "call"
    /\ context_parts' = <<>> /\ total_tokens' = 0 /\ sources' = <<>>
    /\ r' = 0
    /\ rpc' = "loop"
    /\ UNCHANGED <<splitVars, selfVars, dbVars, call2, results, max_tokens, context_str>>

\* lines 204-224: a pass of the loop that includes the result
RagInclude ==
    /\ rpc = "loop" /\ r < Len(results)
    /\ LET result == results[r + 1]
           chunk_tokens == ChunkTokens(result)
       IN  /\ ~ContextOverflows(total_tokens, chunk_tokens, max_tokens)
           /\ context_parts' = Append(context_parts, FormatBlock(result))
           /\ total_tokens' = total_tokens + chunk_tokens
           /\ sources' = Append(sources, SourceOf(result, results))
    /\ r' = r + 1
    /\ UNCHANGED <<splitVars, selfVars, dbVars, call2, results, max_tokens, rpc, context_str>>

\* lines 204-208: the pass of the loop that breaks
RagBreak ==
    /\ rpc = "loop" /\ r < Len(results)
    /\ ContextOverflows(total_tokens, ChunkTokens(results[r + 1]), max_tokens)
    /\ rpc' = "join"
    /\ UNCHANGED <<splitVars, selfVars, dbVars, call2, results, max_tokens, r, context_parts,
                   total_tokens, sources, context_str>>

\* the loop ends with the last result
RagExhausted ==
    /\ rpc = "loop" /\ ~(r < Len(results))
    /\ rpc' = "join"
    /\ UNCHANGED <<splitVars, selfVars, dbVars, call2, results, max_tokens, r, context_parts,
                   total_tokens, sources, context_str>>

\* lines 226-228
RagReturn ==
    /\ rpc = "join"
    /\ context_str' = Concat(context_parts)
    /\ rpc' = "done"
    /\ UNCHANGED <<splitVars, selfVars, dbVars, call2, results, max_tokens, r, context_parts,
                   total_tokens, sources>>

NextRag == RagBegin \/ RagInclude \/ RagBreak \/ RagExhausted \/ RagReturn

SpecRag == InitRag /\ [][NextRag]_vars

Next ==
    \/ PlainBegin \/ PlainPara \/ PlainFinish
    \/ MdBegin \/ MdPrologue \/ MdSection \/ MdPara \/ MdSectionFlush \/ MdReturn
    \/ SessBegin \/ SessMessage \/ SessSub \/ SessSubEnd \/ SessReturn

Spec == Init /\ [][Next]_vars

\* the calls on splitters of every configuration
SpecConfig == InitConfig /\ [][Next]_vars

(***************************************************************************)
(* A second call of split_plaintext, on the same ChunkSplitter or another, *)
(* running while the first call runs. Its locals (lines 229-234) are the   *)
(* fields of call2.                                                        *)
(***************************************************************************)
\* the documents of the second call: one paragraph, two paragraphs, three
Call2Docs ==
    { <<"a">>,
      <<"b", SP, "b", NL, NL, "b", SP, "b">>,
      <<"a", NL, NL, "b", SP, "b", NL, NL, "a">> }

\* the locals of the second call
Call2Frame_shared ==
    [current_chunk |-> call2.current_chunk,
     current_tokens |-> call2.current_tokens,
     ord_counter |-> ord_counter, chunks |-> call2.chunks]
Call2Frame ==
    [current_chunk |-> call2.current_chunk,
     current_tokens |-> call2.current_tokens,
     ord_counter |-> call2.ord_counter, chunks |-> call2.chunks]

\* the second call is made on the splitter of the first call or on a
\* ChunkSplitter(max_chunk_tokens=1)
InitConcurrent ==
    /\ max_chunk_tokens \in Budgets
    /\ InitDefaults
    /\ InitShort
    /\ call2 \in { [NoCall2 EXCEPT !.pc = "call", !.self = sf, !.text = t] :
                      sf \in {ChunkSplitter(max_chunk_tokens, DefaultMin,
                                            DefaultOverlap),
                              ChunkSplitter(1, DefaultMin, DefaultOverlap)},
                      t \in Call2Docs }

\* lines 229-234
Call2Begin ==
    /\ call2.pc = "call"
    /\ call2' = [call2 EXCEPT !.pc = "plain_loop",
                              !.paragraphs = SplitParagraphs(call2.text),
                              !.current_chunk = <<>>,
                              !.current_tokens = 0,
                              !.ord_counter = 0,
                              !.chunks = <<>>,
                              !.began_while = pc]
    /\ UNCHANGED <<splitVars, ragVars, selfVars, dbVars>>

\* lines 236-256
Call2Para ==
    /\ call2.pc = "plain_loop" /\ call2.paragraphs # <<>>
    /\ LET st == ParaStep(Call2Frame, Head(call2.paragraphs), None, "doc",
                          call2.self)
       IN  call2' = [call2 EXCEPT !.current_chunk = st.current_chunk,
                                  !.current_tokens = st.current_tokens,
                                  !.ord_counter = st.ord_counter,
                                  !.chunks = st.chunks,
                                  !.paragraphs = Tail(call2.paragraphs)]
    /\ UNCHANGED <<splitVars, ragVars, selfVars, dbVars>>

\* lines 258-269
Call2Finish ==
    /\ call2.pc = "plain_loop" /\ call2.paragraphs = <<>>
    /\ LET st == FinalFlush(Call2Frame, None, "doc")
       IN  call2' = [call2 EXCEPT !.chunks = st.chunks,
                                  !.ord_counter = st.ord_counter,
                                  !.pc = "done",
                                  !.ended_while = pc]
    /\ UNCHANGED <<splitVars, ragVars, selfVars, dbVars>>

NextConcurrent == Next \/ Call2Begin \/ Call2Para \/ Call2Finish

SpecConcurrent == InitConcurrent /\ [][NextConcurrent]_vars

(***************************************************************************)
(* CLILogger.log_message (src/tools/cli_logger.py). Each logger is one     *)
(* sqlite connection in the default transaction mode: a SELECT reads the   *)
(* committed rows, an INSERT opens a transaction and takes the write lock, *)
(* commit() publishes the row and releases the lock.                       *)
(***************************************************************************)
\* most messages logged by the one logger of SpecLogger
MaxLog == 3
\* most messages logged by the two loggers of SpecLoggers
MaxLogShared == 2

\* the sessions of table sessions that messages are logged to
SessionIds == {1, 2}

\* contents of a logged message
LogContents == { <<"a">> }

\* a row of table sessions: finished_at is NULL (FALSE) or a time (TRUE)
SessionRow(finished_at, notes) == [finished_at |-> finished_at, notes |-> notes]

\* a row of table messages
MessageRow(sid, role, content, step) ==
    [session_id |-> sid, role |-> role, content |-> content, step |-> step]

\* neither splitter nor build_rag_context is called
SplitterIdle ==
    /\ op = "none" /\ pc = "idle" /\ max_chunk_tokens = 0 /\ text = <<>>
    /\ InitDefaults /\ call2 = NoCall2
    /\ session_id = 0 /\ session_found = FALSE /\ messages = <<>>
    /\ Idle
    /\ RagIdle

\* MAX(x) over the set S, NULL replaced by 0: COALESCE(MAX(step), 0)
CoalesceMax(S) == IF S = {} THEN 0 ELSE CHOOSE x \in S : \A y \in S : y <= x

\* lines 123-131: SELECT COALESCE(MAX(step), 0) + 1 ... WHERE session_id = ?
NextStep_global(tbl, sid) ==
    CoalesceMax({ tbl[k].step : k \in 1..Len(tbl) }) + 1
NextStep(tbl, sid) ==
    CoalesceMax({ tbl[k].step : k \in { j \in 1..Len(tbl) :
                                          tbl[j].session_id = sid } }) + 1

\* the calls of log_message begun and not yet ended
InFlight == Cardinality({ l \in Loggers : lg[l].pc # "idle" })

\* two sessions exist, no message is logged, every logger is connected
InitLogger ==
    /\ SplitterIdle
    /\ tbl_sessions = <<SessionRow(FALSE, None), SessionRow(FALSE, None)>>
    /\ tbl_messages = <<>> /\ tbl_chunks = <<>>
    /\ db_lock = 0
    /\ lg = [l \in Loggers |-> LogIdle]
    /\ ses = NoInteractive
    /\ imp = NoImport

\* log_message(session_id, role, content) is called on logger l
LogCall(l, sid, role, content, bound) ==
    /\ lg[l].pc = "idle"
    /\ Len(tbl_messages) + InFlight < bound
    /\ lg' = [lg EXCEPT ![l] = [pc |-> "select", session_id |-> sid,
                                 role |-> role, content |-> content,
                                 next_step |-> 0]]
    /\ UNCHANGED <<splitVars, ragVars, selfVars, call2, tbl_sessions,
                   tbl_messages, tbl_chunks, db_lock, ses, imp>>

\* lines 123-132: the SELECT and fetchone()
LogSelect(l) ==
    /\ lg[l].pc = "select"
    /\ lg' = [lg EXCEPT ![l].next_step = NextStep(tbl_messages,
                                                  lg[l].session_id),
                        ![l].pc = "insert"]
    /\ UNCHANGED <<splitVars, ragVars, selfVars, call2, tbl_sessions,
                   tbl_messages, tbl_chunks, db_lock, ses, imp>>

\* lines 137-143: the INSERT opens a transaction and takes the write lock
LogInsert(l) ==
    /\ lg[l].pc = "insert"
    /\ db_lock = 0
    /\ db_lock' = l
    /\ lg' = [lg EXCEPT ![l].pc = "commit"]
    /\ UNCHANGED <<splitVars, ragVars, selfVars, call2, tbl_sessions,
                   tbl_messages, tbl_chunks, ses, imp>>

\* lines 137-143: another connection holds the write lock until the busy
\* timeout runs out, and execute raises OperationalError out of log_message
LogBusy(l) ==
    /\ lg[l].pc = "insert"
    /\ db_lock \notin {0, l}
    /\ lg' = [lg EXCEPT ![l] = LogIdle]
    /\ UNCHANGED <<splitVars, ragVars, selfVars, call2, tbl_sessions,
                   tbl_messages, tbl_chunks, db_lock, ses, imp>>

\* lines 144-152: commit() and return
LogCommit(l) ==
    /\ lg[l].pc = "commit"
    /\ tbl_messages' = Append(tbl_messages,
                              MessageRow(lg[l].session_id, lg[l].role,
                                         lg[l].content, lg[l].next_step))
    /\ db_lock' = 0
    /\ lg' = [lg EXCEPT ![l] = LogIdle]
    /\ UNCHANGED <<splitVars, ragVars, selfVars, call2, tbl_sessions,
                   tbl_chunks, ses, imp>>

\* the whole call on a connection no other connection interleaves with
log_message(tbl, sid, role, content) ==
    Append(tbl, MessageRow(sid, role, content, NextStep(tbl, sid)))

\* one logger
NextLogger ==
    \/ \E sid \in SessionIds, role \in Roles, content \in LogContents :
          LogCall(1, sid, role, content, MaxLog)
    \/ LogSelect(1)
    \/ LogInsert(1)
    \/ LogCommit(1)

SpecLogger == InitLogger /\ [][NextLogger]_vars

\* two loggers on the same database
NextLoggers ==
    \E l \in Loggers :
        \/ \E sid \in SessionIds, role \in Roles, content \in LogContents :
              LogCall(l, sid, role, content, MaxLogShared)
        \/ LogSelect(l)
        \/ LogInsert(l)
        \/ LogBusy(l)
        \/ LogCommit(l)

SpecLoggers == InitLogger /\ [][NextLoggers]_vars

(***************************************************************************)
(* CLILogger.interactive_session: one pass of the loop is one action.      *)
(***************************************************************************)
\* most lines read from the terminal in one interactive session
MaxInputs == 4

\* s.startswith(prefix)
StartsWith(s, prefix) ==
    Len(s) >= Len(prefix) /\ SubSeq(s, 1, Len(prefix)) = prefix

\* s[start:], start counted from 0
SliceFrom(s, start) == SubSeq(s, start + 1, Len(s))

CmdEnd == <<"/", "e", "n", "d">>
CmdNote == <<"/", "n", "o", "t", "e">>
CmdQuit == <<"/", "q", "u", "i", "t">>

\* the lines typed at the prompt: empty, blank, a message with and without
\* blanks around it, and the commands with and without text after them
InputLines ==
    { <<>>, <<SP>>, <<"a">>, <<SP, "a", SP>>,
      CmdEnd, CmdEnd \o <<SP, "a">>, CmdEnd \o <<"x">>,
      CmdNote, CmdNote \o <<SP, "a">>,
      CmdQuit, <<SP>> \o CmdQuit, CmdQuit \o <<"x">> }

\* line 235: the role of the next message
RoleOf_user(step_counter) == "user"
RoleOf(step_counter) == IF step_counter % 2 = 0 THEN "user" ELSE "assistant"

\* line 243: the notes of /end
EndNotes(user_input) ==
    IF Len(user_input) > 5 THEN strip(SliceFrom(user_input, 5)) ELSE None

\* the database holds no session or one session, with or without a message
InitInteractive ==
    /\ SplitterIdle
    /\ tbl_sessions \in { <<>>, <<SessionRow(FALSE, None)>> }
    /\ tbl_messages \in
          (IF tbl_sessions = <<>> THEN { <<>> }
           ELSE { <<>>, <<MessageRow(1, "assistant", <<"a">>, 1)>> })
    /\ tbl_chunks = <<>> /\ db_lock = 0
    /\ lg = [l \in Loggers |-> LogIdle]
    /\ ses = [NoInteractive EXCEPT !.pc = "call"]
    /\ imp = NoImport

\* lines 229-231: start_session (lines 83-91) and step_counter = 0
SessionStart ==
    /\ ses.pc = "call"
    /\ tbl_sessions' = Append(tbl_sessions, SessionRow(FALSE, None))
    /\ ses' = [ses EXCEPT !.pc = "loop",
                          !.session_id = Len(tbl_sessions) + 1,
                          !.step_counter = 0]
    /\ UNCHANGED <<splitVars, ragVars, selfVars, call2, tbl_messages,
                   tbl_chunks, db_lock, lg, imp>>

\* lines 235-238: role, prompt and input(prompt).strip() returning a line
ReadLine(line) ==
    [ses EXCEPT !.role = RoleOf(ses.step_counter),
                !.user_input = strip(line),
                !.reads = ses.reads + 1]

\* the loop is at input() and the terminal has another line or event
AtPrompt == ses.pc = "loop" /\ ses.reads < MaxInputs

\* lines 241-246: /end, end_session (lines 168-178) and break
SessionEnd(line) ==
    /\ AtPrompt
    /\ LET u     == strip(line)
           notes == EndNotes(u)
           row   == tbl_sessions[ses.session_id]
       IN  /\ StartsWith(u, CmdEnd)
           /\ tbl_sessions' =
                 [tbl_sessions EXCEPT ![ses.session_id] =
                     SessionRow(TRUE, IF notes # None THEN notes
                                      ELSE row.notes)]
           /\ ses' = [ReadLine(line) EXCEPT !.pc = "stopped"]
    /\ UNCHANGED <<splitVars, ragVars, selfVars, call2, tbl_messages,
                   tbl_chunks, db_lock, lg, imp>>

\* lines 248-256: /note and continue
SessionNote(line) ==
    /\ AtPrompt
    /\ LET u   == strip(line)
           row == tbl_sessions[ses.session_id]
       IN  /\ ~StartsWith(u, CmdEnd)
           /\ StartsWith(u, CmdNote)
           /\ tbl_sessions' =
                 [tbl_sessions EXCEPT ![ses.session_id] =
                     SessionRow(row.finished_at, strip(SliceFrom(u, 6)))]
           /\ ses' = ReadLine(line)
    /\ UNCHANGED <<splitVars, ragVars, selfVars, call2, tbl_messages,
                   tbl_chunks, db_lock, lg, imp>>

\* lines 258-260: /quit and break
SessionQuit(line) ==
    /\ AtPrompt
    /\ LET u == strip(line)
       IN  /\ ~StartsWith(u, CmdEnd) /\ ~StartsWith(u, CmdNote)
           /\ u = CmdQuit
           /\ ses' = [ReadLine(line) EXCEPT !.pc = "stopped"]
    /\ UNCHANGED <<splitVars, ragVars, selfVars, call2, tbl_sessions,
                   tbl_messages, tbl_chunks, db_lock, lg, imp>>

\* lines 262-265: a message is logged
SessionLog(line) ==
    /\ AtPrompt
    /\ LET u == strip(line)
       IN  /\ ~StartsWith(u, CmdEnd) /\ ~StartsWith(u, CmdNote)
           /\ u # CmdQuit
           /\ u # <<>>
           /\ tbl_messages' = log_message(tbl_messages, ses.session_id,
                                          RoleOf(ses.step_counter), u)
           /\ ses' = [ReadLine(line) EXCEPT
                         !.step_counter = ses.step_counter + 1]
    /\ UNCHANGED <<splitVars, ragVars, selfVars, call2, tbl_sessions,
                   tbl_chunks, db_lock, lg, imp>>

\* line 263: an empty line is skipped
SessionEmpty(line) ==
    /\ AtPrompt
    /\ strip(line) = <<>>
    /\ ses' = ReadLine(line)
    /\ UNCHANGED <<splitVars, ragVars, selfVars, call2, tbl_sessions,
                   tbl_messages, tbl_chunks, db_lock, lg, imp>>

\* lines 267-272: input() raises KeyboardInterrupt or EOFError
SessionAbort(exc) ==
    /\ AtPrompt
    /\ ses' = [ses EXCEPT !.role = RoleOf(ses.step_counter),
                          !.exc = exc,
                          !.reads = ses.reads + 1,
                          !.pc = "stopped"]
    /\ UNCHANGED <<splitVars, ragVars, selfVars, call2, tbl_sessions,
                   tbl_messages, tbl_chunks, db_lock, lg, imp>>

NextInteractive ==
    \/ SessionStart
    \/ \E line \in InputLines : SessionEnd(line)
    \/ \E line \in InputLines : SessionNote(line)
    \/ \E line \in InputLines : SessionQuit(line)
    \/ \E line \in InputLines : SessionLog(line)
    \/ \E line \in InputLines : SessionEmpty(line)
    \/ SessionAbort("KeyboardInterrupt")
    \/ SessionAbort("EOFError")

SpecInteractive == InitInteractive /\ [][NextInteractive]_vars

(***************************************************************************)
(* import_chunks_to_db (src/tools/chunk_splitter.py, lines 379-415). The   *)
(* connection is in the default transaction mode: the first INSERT opens a *)
(* transaction, the rows are pending until commit(), and a connection that *)
(* is deallocated without commit() rolls them back.                        *)
(***************************************************************************)
\* longest text, in lines, whose chunks are imported
MaxImportLines == 3

\* the documents of table docs the chunks are attached to
DocIds == {1, 2}

\* the chunk lists passed in: what the splitter returns for a document
ImportDocs ==
    UNION { {JoinLines(ls) : ls \in [1..n -> {<<"a">>, <<>>, <<"b", SP, "b">>}]} :
              n \in 1..MaxImportLines }

ImportLists ==
    { split_plaintext(d, "doc", ChunkSplitter(1, DefaultMin, DefaultOverlap)) :
        d \in ImportDocs }

\* lines 400-409: the row of table chunks for a chunk
ChunkRow(doc_id, chunk) ==
    [doc_id |-> doc_id, ord |-> chunk.ord, heading |-> chunk.heading,
     text |-> chunk.text, token_est |-> chunk.token_est,
     kind |-> chunk.kind, hash |-> chunk.hash,
     metadata |-> IF chunk.metadata.isNone THEN None
                  ELSE <<"json", chunk.metadata>>]

\* lines 400-409: where execute() leaves the row, by the transaction mode
InsertRow_autocommit(table, pending, row) ==
    [table |-> Append(table, row), pending |-> pending]
InsertRow(table, pending, row) ==
    [table |-> table, pending |-> Append(pending, row)]

\* table chunks holds nothing or a chunk of document 0; the call gets a
\* document id and a chunk list
InitImport ==
    /\ SplitterIdle
    /\ tbl_sessions = <<>> /\ tbl_messages = <<>>
    /\ tbl_chunks \in
          { <<>>,
            <<ChunkRow(0, Chunk(None, <<"a">>, 0, "doc", 1,
                                compute_hash(<<"a">>), NoMetadata))>> }
    /\ db_lock = 0
    /\ lg = [l \in Loggers |-> LogIdle]
    /\ ses = NoInteractive
    /\ imp \in { [NoImport EXCEPT !.pc = "call", !.doc_id = doc,
                                   !.chunks = cs] :
                    doc \in DocIds, cs \in ImportLists }

\* lines 395-398: connect, PRAGMA, count = 0
ImportBegin ==
    /\ imp.pc = "call"
    /\ imp' = [imp EXCEPT !.pc = "loop", !.conn_open = TRUE, !.count = 0,
                          !.k = 0, !.pending = <<>>]
    /\ UNCHANGED <<splitVars, ragVars, selfVars, call2, tbl_sessions,
                   tbl_messages, tbl_chunks, db_lock, lg, ses>>

\* lines 399-410: a pass of the loop whose INSERT succeeds
ImportInsert ==
    /\ imp.pc = "loop" /\ imp.k < Len(imp.chunks)
    /\ LET after == InsertRow(tbl_chunks, imp.pending,
                              ChunkRow(imp.doc_id, imp.chunks[imp.k + 1]))
       IN  /\ tbl_chunks' = after.table
           /\ imp' = [imp EXCEPT !.pending = after.pending,
                                 !.count = imp.count + 1,
                                 !.k = imp.k + 1]
    /\ UNCHANGED <<splitVars, ragVars, selfVars, call2, tbl_sessions,
                   tbl_messages, db_lock, lg, ses>>

\* lines 402-409: the INSERT raises (a foreign-key or uniqueness violation)
\* and the exception leaves the function: neither commit() nor close() is
\* reached, the connection stays open with its transaction
ImportRaise ==
    /\ imp.pc = "loop" /\ imp.k < Len(imp.chunks)
    /\ imp' = [imp EXCEPT !.pc = "raised"]
    /\ UNCHANGED <<splitVars, ragVars, selfVars, call2, tbl_sessions,
                   tbl_messages, tbl_chunks, db_lock, lg, ses>>

\* lines 412-415: commit(), close() and return count
ImportCommit ==
    /\ imp.pc = "loop" /\ imp.k = Len(imp.chunks)
    /\ tbl_chunks' = tbl_chunks \o imp.pending
    /\ imp' = [imp EXCEPT !.pc = "done", !.pending = <<>>,
                          !.conn_open = FALSE]
    /\ UNCHANGED <<splitVars, ragVars, selfVars, call2, tbl_sessions,
                   tbl_messages, db_lock, lg, ses>>

\* line 395: the connection object of a call that raised is deallocated
\* (garbage collection, end of the process); sqlite rolls back what is pending
ImportCollect ==
    /\ imp.pc = "raised" /\ imp.conn_open
    /\ imp' = [imp EXCEPT !.pending = <<>>, !.conn_open = FALSE]
    /\ UNCHANGED <<splitVars, ragVars, selfVars, call2, tbl_sessions,
                   tbl_messages, tbl_chunks, db_lock, lg, ses>>

NextImport ==
    ImportBegin \/ ImportInsert \/ ImportRaise \/ ImportCommit \/ ImportCollect

SpecImport == InitImport /\ [][NextImport]_vars

(***************************************************************************)
(* Properties.                                                             *)
(***************************************************************************)
\* the paragraphs of ps that are not blank
NonBlankParas(ps) == SelectSeq(ps, LAMBDA x : strip(x) # <<>>)

\* chunk k was built by split_plaintext or split_markdown
FromTextSplitter == op \in {"plain", "md"}

\* C1: Budget respect. Every chunk of split_plaintext and split_markdown has
\* token_est <= max_chunk_tokens, unless it is the unsplit prologue, holds no
\* paragraph at all, or was built from exactly one non-blank paragraph whose
\* own estimate exceeds max_chunk_tokens. In particular a chunk assembled from
\* two or more paragraphs, each within the limit, is within the limit.
C1_BudgetRespect ==
    FromTextSplitter =>
        \A k \in 1..Len(chunks) :
            \/ chunks[k].token_est <= max_chunk_tokens
            \/ built[k].from = "prologue"
            \/ NonBlankParas(built[k].paras) = <<>>
            \/ /\ Len(NonBlankParas(built[k].paras)) = 1
               /\ estimate_tokens(NonBlankParas(built[k].paras)[1]) > max_chunk_tokens

\* C2: Density. The list split_plaintext or split_markdown is building (and
\* returns) carries ord = 0, 1, ..., N-1 in list order: the chunk at list
\* position i has ord = i.
C2_Density ==
    FromTextSplitter =>
        \A k \in 1..Len(chunks) : chunks[k].ord = k - 1

\* a returned list of at least three chunks of a markdown document
C2_Witness ==
    /\ op = "md" /\ pc = "done" /\ Len(chunks) >= 3
    /\ chunks[3].ord = 2

\* C3: Message ordering continuity. split_session_messages numbers its chunks
\* with one counter over all messages (ord = list position), and the
\* sub-chunks of one oversized message carry sub_chunk = 0, 1, ..., k-1 in
\* ord order.
C3_MessageOrdContinuity ==
    op = "sess" =>
        \A k \in 1..Len(chunks) :
            /\ chunks[k].ord = k - 1
            /\ chunks[k].metadata.sub_chunk # <<>> =>
                 chunks[k].metadata.sub_chunk[1] =
                    Cardinality({j \in 1..(k - 1) :
                        chunks[j].metadata.message_step
                            = chunks[k].metadata.message_step})

\* three messages, the second split into two sub-chunks: ord 0, 1, 2, 3
C3_Witness ==
    /\ op = "sess" /\ pc = "done" /\ Len(messages) = 3 /\ Len(chunks) = 4
    /\ chunks[2].metadata.sub_chunk = <<0>>
    /\ chunks[3].metadata.sub_chunk = <<1>>
    /\ chunks[4].metadata.message_step = 3
    /\ chunks[4].ord = 3

\* C4: Hash purity. The hash of every chunk is compute_hash of the chunk's
\* text, so chunks with equal text have equal hash.
C4_HashPurity ==
    \A k \in 1..Len(chunks) : chunks[k].hash = compute_hash(chunks[k].text)

\* C5: No chunk of any splitter has a text that is empty after trimming.
C5_NoEmptyText ==
    \A k \in 1..Len(chunks) : strip(chunks[k].text) # <<>>

\* the sum of token_est (NULL counting as 0) over rows
RECURSIVE SumTokens(_)
SumTokens(rows) ==
    IF rows = <<>> THEN 0 ELSE ChunkTokens(Head(rows)) + SumTokens(Tail(rows))

\* the ranked candidates included in the context so far
Included ==
    [k \in 1..Len(sources) |->
        CHOOSE row \in {results[j] : j \in 1..Len(results)} :
            row.chunk_id = sources[k].chunk_id]

\* C6 as stated: at every step of build_rag_context and in its result the
\* token estimates of the included chunks sum to at most max_tokens, for any
\* max_tokens.
C6_ContextBudget ==
    rpc \in {"loop", "join", "done"} => SumTokens(Included) <= max_tokens

\* C6 amended: for every max_tokens >= 0, at every step of
\* build_rag_context and in its result the token estimates of the included
\* chunks sum to at most max_tokens.
C6_ContextBudgetNonNegative ==
    (rpc \in {"loop", "join", "done"} /\ max_tokens >= 0) =>
        SumTokens(Included) <= max_tokens

\* two chunks fill the budget exactly and the third is left out
C6_Witness ==
    /\ rpc = "done" /\ max_tokens >= 1
    /\ Len(sources) = 2 /\ Len(results) = 3
    /\ SumTokens(Included) = max_tokens

\* the token estimates of the first n ranked candidates
Cumulative(n) == SumTokens(SubSeq(results, 1, n))

\* the longest prefix of results whose running sums all stay within max_tokens
LongestPrefix ==
    CHOOSE n \in 0..Len(results) :
        /\ \A j \in 1..n : Cumulative(j) <= max_tokens
        /\ n < Len(results) => Cumulative(n + 1) > max_tokens

\* C7: Strict greedy first-fit. build_rag_context returns exactly the longest
\* prefix of the ranked candidates whose cumulative token_est stays within
\* max_tokens, nothing after the first candidate that would overflow, and an
\* empty context and source list when the first candidate alone exceeds
\* max_tokens.
C7_GreedyPrefix ==
    rpc = "done" =>
        /\ Len(sources) = LongestPrefix
        /\ \A k \in 1..Len(sources) : sources[k].chunk_id = results[k].chunk_id
        /\ (results # <<>> /\ ChunkTokens(results[1]) > max_tokens) =>
              (context_str = <<>> /\ sources = <<>>)

\* the loop stopped at the second candidate although the third would fit
C7_Witness ==
    /\ rpc = "done" /\ Len(results) = 3 /\ Len(sources) = 1
    /\ total_tokens + ChunkTokens(results[3]) <= max_tokens

\* "## {heading or "(no heading)"}\n\n{text}\n\n"
ExpectedBlock(row) ==
    <<"#", "#", " ">>
    \o (IF row.heading = None THEN <<"(no heading)">> ELSE row.heading)
    \o <<"\n", "\n">> \o row.text \o <<"\n", "\n">>

\* C8: No partial inclusion. The context is the concatenation, in rank
\* order, of one whole formatted block per included chunk, and the source
\* list holds one provenance record per included chunk in the same order.
C8_WholeBlocks ==
    /\ Len(context_parts) = Len(sources)
    /\ \A k \in 1..Len(sources) :
          /\ context_parts[k] = ExpectedBlock(results[k])
          /\ sources[k] = [chunk_id |-> results[k].chunk_id,
                           doc_title |-> results[k].doc_title,
                           module |-> results[k].module,
                           heading |-> results[k].heading,
                           source |-> results[k].source]
    /\ rpc = "done" =>
          context_str = Concat([k \in 1..Len(sources) |-> ExpectedBlock(results[k])])

\* a context of two blocks, one of a chunk without heading
C8_Witness ==
    /\ rpc = "done" /\ Len(sources) = 2
    /\ results[1].heading # None /\ results[2].heading = None
    /\ Len(context_str) = Len(ExpectedBlock(results[1])) + Len(ExpectedBlock(results[2]))

\* C9: For every chunk of every splitter, token_est is estimate_tokens of the
\* chunk's final text.
C9_TokenEstOfText ==
    \A k \in 1..Len(chunks) :
        chunks[k].token_est = estimate_tokens(chunks[k].text)

\* a chunk of two paragraphs whose estimate is not the sum of theirs
C9_Witness ==
    /\ pc = "done" /\ op = "plain" /\ Len(chunks) = 1
    /\ Len(built[1].paras) = 2
    /\ chunks[1].token_est
         > estimate_tokens(built[1].paras[1]) + estimate_tokens(built[1].paras[2])

\* what a call of split_plaintext or split_markdown has still to do: the
\* sections not yet visited, then the paragraphs not yet visited
Remaining ==
    CASE pc = "call"       -> 2 + 100 * (Len(text) + 5)
      [] pc = "plain_loop" -> 1 + Len(paragraphs)
      [] pc = "md_loop"    -> 1 + 100 * (Len(sections) + 3 - i) + 99
      [] pc = "md_paras"   -> 1 + 100 * (Len(sections) + 3 - i) + Len(paragraphs)
      [] OTHER             -> 0

\* C10: Splitting is total and empty input gives no chunks. split_plaintext
\* and split_markdown never raise, and every step of a call leaves less to
\* do, down to the return (no loop runs forever); for a text that is empty
\* or holds only whitespace they return the empty list, and so does
\* split_session_messages for a session without messages.
C10_TotalAndEmpty ==
    /\ [](FromTextSplitter =>
            pc \in {"call", "plain_loop", "md_loop", "md_paras", "done"})
    /\ [][FromTextSplitter => (Remaining' < Remaining /\ Remaining' >= 0)]_vars
    /\ []((FromTextSplitter /\ pc = "done" /\ strip(text) = <<>>) => chunks = <<>>)
    /\ []((op = "sess" /\ pc = "done" /\ messages = <<>>) => chunks = <<>>)

\* a markdown document of blank and whitespace-only lines
C10_Witness ==
    /\ op = "md" /\ pc = "done" /\ Len(text) >= 3 /\ strip(text) = <<>>
    /\ \E k \in 1..Len(text) : text[k] = SP
    /\ chunks = <<>>

(***************************************************************************)
(* Header lines as the documentation describes them: a line that begins    *)
(* with exactly two or three '#', then a space, then title text.           *)
(***************************************************************************)
\* the lines of s
RECURSIVE LinesOf(_)
LinesOf(s) ==
    LET nls == {pos \in 1..Len(s) : s[pos] = NL}
    IN  IF nls = {} THEN <<s>>
        ELSE LET pos == CHOOSE k \in nls : \A j \in nls : k <= j
             IN  <<SubSeq(s, 1, pos - 1)>> \o LinesOf(Tail_(s, pos + 1))

\* the number of '#' a line begins with
MarkerLen(l) == CountRun(l, 1, {"#"})

IsHeaderLine(l) ==
    /\ MarkerLen(l) \in {2, 3}
    /\ Len(l) >= MarkerLen(l) + 2
    /\ l[MarkerLen(l) + 1] = SP

\* the title of a header line: what follows the marker and the spaces after
\* it (the last space, if nothing but spaces follows the marker)
TitleOf(l) ==
    LET w == CountRun(l, MarkerLen(l) + 1, {SP})
    IN  IF MarkerLen(l) + w = Len(l) THEN <<SP>>
        ELSE Tail_(l, MarkerLen(l) + w + 1)

\* the positions of the header lines among the lines of s, in order
HeaderPositions(s) ==
    LET ls == LinesOf(s)
    IN  SelectSeq([k \in 1..Len(ls) |-> k], LAMBDA k : IsHeaderLine(ls[k]))

\* lines a..b of ls joined by newlines (empty if a > b)
RECURSIVE JoinRange(_, _, _)
JoinRange(ls, a, b) ==
    IF a > b THEN <<>>
    ELSE IF a = b THEN ls[a]
    ELSE ls[a] \o <<NL>> \o JoinRange(ls, a + 1, b)

\* what precedes the first header line
PrologueOf(s) ==
    LET hp == HeaderPositions(s)
    IN  IF hp = <<>> THEN s ELSE JoinRange(LinesOf(s), 1, hp[1] - 1)

\* the text of the section of the n-th header line: marker, space, title,
\* blank line, trimmed content up to the next header line
SectionText(s, n) ==
    LET ls   == LinesOf(s)
        hp   == HeaderPositions(s)
        last == IF n < Len(hp) THEN hp[n + 1] - 1 ELSE Len(ls)
        l    == ls[hp[n]]
    IN  SubSeq(l, 1, MarkerLen(l)) \o <<SP>> \o TitleOf(l) \o <<NL, NL>>
        \o strip(JoinRange(ls, hp[n] + 1, last))

\* C11: No-header fallback. split_markdown on a non-blank document that
\* contains no level-2/level-3 header line returns exactly one chunk, with
\* heading absent, ord = 0, kind = 'doc' and the whole trimmed document as
\* text, whatever max_chunk_tokens is.
C11_NoHeaderFallback ==
    (/\ op = "md" /\ pc = "done"
     /\ strip(text) # <<>>
     /\ HeaderPositions(text) = <<>>) =>
        /\ Len(chunks) = 1
        /\ chunks[1].heading = None
        /\ chunks[1].ord = 0
        /\ chunks[1].kind = "doc"
        /\ chunks[1].text = strip(text)

\* C12: split_markdown on a document with an empty prologue and k >= 1
\* header lines whose sections each estimate <= max_chunk_tokens returns
\* exactly k chunks; the n-th has heading = title of the n-th header,
\* ord = n - 1, kind = 'doc' and text = marker, space, title, blank line,
\* trimmed content.
C12_OneChunkPerSection ==
    (/\ op = "md" /\ pc = "done"
     /\ HeaderPositions(text) # <<>>
     /\ strip(PrologueOf(text)) = <<>>
     /\ \A n \in 1..Len(HeaderPositions(text)) :
           estimate_tokens(SectionText(text, n)) <= max_chunk_tokens) =>
        /\ Len(chunks) = Len(HeaderPositions(text))
        /\ \A n \in 1..Len(chunks) :
              /\ chunks[n].heading = TitleOf(LinesOf(text)[HeaderPositions(text)[n]])
              /\ chunks[n].ord = n - 1
              /\ chunks[n].kind = "doc"
              /\ chunks[n].text = SectionText(text, n)

\* C13: A ChunkSplitter with a non-positive max_chunk_tokens is rejected:
\* no call on it runs to its return and none produces a chunk.
C13_RejectsNonPositive ==
    (op \in {"plain", "md", "sess"} /\ max_chunk_tokens <= 0) =>
        (pc # "done" /\ chunks = <<>>)

\* what the call under way returns from its arguments on splitter self
Returned(self) ==
    CASE op = "plain" -> split_plaintext(text, "doc", self)
      [] op = "md"    -> split_markdown(text, self)
      [] op = "sess"  -> split_session_messages(messages, session_id, self)
      [] OTHER        -> <<>>

\* C14: min_chunk_tokens and overlap_tokens are never applied. Whatever the
\* input and max_chunk_tokens, the list a call returns is the list every
\* ChunkSplitter with the same max_chunk_tokens and any other
\* min_chunk_tokens and overlap_tokens returns.
C14_UnusedConfiguration ==
    pc = "done" =>
        \A mn \in Mins, ov \in Overlaps :
            Returned(ChunkSplitter(max_chunk_tokens, mn, ov)) = chunks

\* a markdown call that split a section, on a splitter whose
\* min_chunk_tokens and overlap_tokens are not the defaults
C14_Witness ==
    /\ pc = "done" /\ op = "md" /\ Len(chunks) >= 2
    /\ min_chunk_tokens # DefaultMin /\ overlap_tokens # DefaultOverlap
    /\ max_chunk_tokens > 0
    /\ chunks = Returned(ChunkSplitter(max_chunk_tokens, DefaultMin, DefaultOverlap))

\* C15: Every chunk of split_session_messages, the single chunk of a message
\* within the limit or a sub-chunk of a larger one, has kind 'ai' if the
\* role of its message is 'assistant' and kind 'note' for any other role.
C15_KindFromRole ==
    op = "sess" =>
        /\ \A k \in 1..Len(chunks) :
              chunks[k].kind =
                 IF messages[built[k].msg].role = "assistant" THEN "ai" ELSE "note"
        /\ \A k \in 1..Len(sub_chunks) :
              sub_chunks[k].kind =
                 IF messages[m + 1].role = "assistant" THEN "ai" ELSE "note"

\* a system message in one chunk and an assistant message in sub-chunks
C15_Witness ==
    /\ op = "sess" /\ pc = "done" /\ Len(chunks) >= 3
    /\ \E k \in 1..Len(chunks) :
          /\ messages[built[k].msg].role = "system"
          /\ built[k].from = "message" /\ chunks[k].kind = "note"
    /\ \E k \in 1..Len(chunks) :
          /\ messages[built[k].msg].role = "assistant"
          /\ built[k].from = "sub" /\ chunks[k].kind = "ai"

\* C16: Every chunk of split_session_messages carries metadata with the
\* session_id, message_step and message_role of its message, and the key
\* sub_chunk exactly when the message's estimate exceeds max_chunk_tokens;
\* the chunks of split_markdown and split_plaintext carry no metadata.
C16_MetadataOfMessage ==
    /\ op = "sess" =>
          \A k \in 1..Len(chunks) :
              LET step == built[k].msg
              IN  /\ ~chunks[k].metadata.isNone
                  /\ chunks[k].metadata.session_id = session_id
                  /\ chunks[k].metadata.message_step = step
                  /\ chunks[k].metadata.message_role = messages[step].role
                  /\ (chunks[k].metadata.sub_chunk # <<>>) <=>
                        (estimate_tokens(messages[step].content) > max_chunk_tokens)
    /\ FromTextSplitter =>
          \A k \in 1..Len(chunks) : chunks[k].metadata = NoMetadata

\* a message within the limit after one that was split in two
C16_Witness ==
    /\ op = "sess" /\ pc = "done" /\ Len(chunks) = 3
    /\ chunks[1].metadata.sub_chunk = <<0>>
    /\ chunks[2].metadata.sub_chunk = <<1>>
    /\ chunks[2].metadata.message_step = 1
    /\ chunks[3].metadata.sub_chunk = <<>>
    /\ chunks[3].metadata.message_step = 2

\* C17: Independent invocations do not interfere. When two splitter calls
\* are interleaved step by step, on one ChunkSplitter or two, on the same
\* document or different ones, each returns exactly the chunk list, ord
\* values included, that it returns when it runs alone.
C17_NoInterference ==
    /\ pc = "done" => chunks = Returned(Self)
    /\ call2.pc = "done" =>
          call2.chunks = split_plaintext(call2.text, "doc", call2.self)

\* both calls returned at least two chunks, and the second call began and
\* ended in the middle of a loop of the first
C17_Witness ==
    /\ pc = "done" /\ call2.pc = "done"
    /\ Len(chunks) >= 2 /\ Len(call2.chunks) >= 2
    /\ call2.began_while \in {"plain_loop", "md_paras", "sess_sub"}
    /\ call2.ended_while \in {"plain_loop", "md_paras", "sess_sub"}

\* the number of whitespace-delimited words of s, counted word by word
RECURSIVE Words(_)
Words(s) ==
    IF s = <<>> THEN 0
    ELSE IF IsSpace(Head(s)) THEN Words(Tail(s))
    ELSE 1 + Words(Tail_(s, 2 + CountRun(s, 2, {"a", "b", "#"})))

\* the texts a call has at hand: its argument, the message contents, the
\* paragraphs still to visit, the buffer and the texts of its chunks
TextsAtHand ==
    {text, current_chunk}
    \cup {messages[k].content : k \in 1..Len(messages)}
    \cup {paragraphs[k] : k \in 1..Len(paragraphs)}
    \cup {chunks[k].text : k \in 1..Len(chunks)}

\* C18: estimate_tokens(text) is the number of whitespace-delimited words of
\* text times 1.3, truncated toward zero (floor(13 * w / 10)); it is never
\* negative and is 0 for the empty string and for whitespace-only text.
C18_EstimateTokens ==
    \A s \in TextsAtHand :
        /\ 10 * estimate_tokens(s) <= 13 * Words(s)
        /\ 13 * Words(s) < 10 * (estimate_tokens(s) + 1)
        /\ estimate_tokens(s) >= 0
        /\ (strip(s) = <<>>) => estimate_tokens(s) = 0

\* a chunk of three words estimated at 3 (3.9 truncated) and a
\* whitespace-only argument
C18_Witness ==
    /\ pc = "done" /\ FromTextSplitter
    /\ \E k \in 1..Len(chunks) :
          Words(chunks[k].text) = 3 /\ chunks[k].token_est = 3
    /\ \E s \in TextsAtHand : s # <<>> /\ strip(s) = <<>>

\* C19: Paragraph atomicity. In split_plaintext and the paragraph pass of
\* split_markdown a paragraph whose own estimate exceeds max_chunk_tokens
\* is never split and shares its chunk with no other paragraph: the chunk's
\* text is that whole paragraph, trimmed.
C19_ParagraphAtomicity ==
    FromTextSplitter =>
        /\ \A k \in 1..Len(chunks) :
              built[k].from = "paras" =>
                 \A j \in 1..Len(built[k].paras) :
                     estimate_tokens(built[k].paras[j]) > max_chunk_tokens =>
                        /\ Len(built[k].paras) = 1
                        /\ chunks[k].text = strip(built[k].paras[j])
        /\ \A j \in 1..Len(cur_paras) :
              estimate_tokens(cur_paras[j]) > max_chunk_tokens =>
                 Len(cur_paras) = 1

\* an oversized paragraph followed by a paragraph that fits, each in a chunk
\* of its own
C19_Witness ==
    /\ op = "plain" /\ pc = "done" /\ Len(chunks) = 2
    /\ max_chunk_tokens >= 1
    /\ estimate_tokens(built[1].paras[1]) > max_chunk_tokens
    /\ chunks[1].text = built[1].paras[1]
    /\ chunks[2].text # <<>>
    /\ estimate_tokens(chunks[2].text) <= max_chunk_tokens

\* C20: The accumulator flushes only a buffer that holds a paragraph beyond
\* the seed prefix. While split_markdown splits an over-budget section with
\* non-blank content, whose header prefix is within max_chunk_tokens, the
\* chunk that starts with the header prefix holds the section's first
\* paragraph: no chunk is the header line alone.
C20_HeaderKeepsFirstParagraph ==
    (/\ op = "md" /\ pc = "md_paras"
     /\ strip(sections[i + 3]) # <<>>
     /\ estimate_tokens(HeaderPrefix(level, heading)) <= max_chunk_tokens
     /\ ~cur_seed /\ built # <<>>) =>
        ~(/\ built[Len(built)].from = "paras"
          /\ built[Len(built)].seed
          /\ built[Len(built)].paras = <<>>)

\* C21: When split_markdown splits an over-budget section into several
\* chunks, each of them carries the section's title as heading and kind
\* 'doc', and they follow one another: their ord values are consecutive and
\* no chunk of another section lies between them.
C21_ContinuationChunks ==
    op = "md" =>
        \A k \in 1..Len(chunks) :
            built[k].from = "paras" =>
                /\ chunks[k].heading = sections[built[k].sec + 2]
                /\ chunks[k].kind = "doc"
                /\ \A j \in 1..(k - 1) :
                      (built[j].from = "paras" /\ built[j].sec = built[k].sec) =>
                          /\ chunks[k].ord = chunks[j].ord + (k - j)
                          /\ \A n \in j..k :
                                /\ built[n].from = "paras"
                                /\ built[n].sec = built[k].sec

\* a prologue chunk, then a section split into two chunks with the same
\* heading and ord 1 and 2
C21_Witness ==
    /\ op = "md" /\ pc = "done" /\ Len(chunks) = 3
    /\ built[1].from = "prologue"
    /\ built[2].from = "paras" /\ built[3].from = "paras"
    /\ built[2].sec = built[3].sec
    /\ chunks[2].heading = chunks[3].heading /\ chunks[2].heading # None
    /\ chunks[2].ord = 1 /\ chunks[3].ord = 2

\* C22: Emission order of split_markdown. A prologue chunk (heading absent,
\* kind 'doc') is emitted exactly when the content before the first header
\* line is non-empty after trimming, and it has ord 0; the sections follow in
\* source order: a chunk with a smaller ord never belongs to a later section.
C22_EmissionOrder ==
    (op = "md" /\ pc = "done") =>
        /\ (\E k \in 1..Len(chunks) : chunks[k].heading = None)
              <=> (strip(PrologueOf(text)) # <<>>)
        /\ \A k \in 1..Len(chunks) :
              chunks[k].heading = None =>
                  (k = 1 /\ chunks[k].ord = 0 /\ chunks[k].kind = "doc")
        /\ \A a, b \in 1..Len(chunks) :
              chunks[a].ord < chunks[b].ord => built[a].sec <= built[b].sec

\* C23: A Chunk is never modified after it was created: a chunk of the list
\* under construction keeps its fields, and a chunk that split_plaintext
\* returned to split_session_messages enters the list as it was returned.
C23_ChunksNeverModified ==
    [][/\ \A k \in 1..Len(chunks) :
             Len(chunks') >= k => chunks'[k] = chunks[k]
       /\ (pc = "sess_sub" /\ Len(chunks') = Len(chunks) + 1) =>
             chunks'[Len(chunks')] = Head(sub_chunks)]_vars

\* the paragraphs read back from the chunks in list order
ChunkParagraphs ==
    Concat([k \in 1..Len(chunks) |-> SplitParagraphs(chunks[k].text)])

\* every paragraph of ps without its leading and trailing whitespace
Trimmed(ps) == [k \in 1..Len(ps) |-> strip(ps[k])]

\* C26 as stated: the non-blank paragraphs read back from the chunks of
\* split_plaintext, in ord order, are exactly the non-blank paragraphs of
\* the input, in the same order, each once.
C26_ContentPreserved ==
    (op = "plain" /\ pc = "done") =>
        NonBlankParas(ChunkParagraphs) = NonBlankParas(SplitParagraphs(text))

\* C26 amended: the non-blank paragraphs read back from the chunks of
\* split_plaintext, in ord order, are the non-blank paragraphs of the input,
\* in the same order, each once, up to the whitespace at the beginning and
\* the end of a paragraph.
C26_ContentPreservedTrimmed ==
    (op = "plain" /\ pc = "done") =>
        Trimmed(NonBlankParas(ChunkParagraphs))
            = Trimmed(NonBlankParas(SplitParagraphs(text)))

\* two paragraphs of the input returned in two chunks
C26_Witness ==
    /\ op = "plain" /\ pc = "done" /\ Len(chunks) = 2
    /\ max_chunk_tokens >= 1
    /\ Len(NonBlankParas(SplitParagraphs(text))) = 2
    /\ chunks[1].text = SplitParagraphs(text)[1]
    /\ chunks[2].text = SplitParagraphs(text)[2]

\* C28: Every connection split_session_messages opens is closed when the
\* call returns or raises, the ValueError of an unknown session included;
\* on that path no chunk list is returned.
C28_ConnectionClosed ==
    (op = "sess" /\ pc \in {"done", "raised"}) =>
        /\ ~conn_open
        /\ pc = "raised" => chunks = <<>>

\* C30: In the loops of the paragraph accumulator the running counter
\* current_tokens equals estimate_tokens of the buffer.
C30_CounterIsEstimate ==
    pc \in {"plain_loop", "md_paras"} =>
        current_tokens = estimate_tokens(current_chunk)

\* the steps of the messages of session sid, in insertion order
StepsOf(sid) ==
    LET rows == SelectSeq(tbl_messages, LAMBDA row : row.session_id = sid)
    IN  [k \in 1..Len(rows) |-> rows[k].step]

\* C24: After any sequence of log_message calls made through one logger,
\* with the sessions mixed, the messages of each session have the steps
\* 1, 2, ..., n in insertion order, whatever was logged to other sessions.
C24_StepsPerSession ==
    \A sid \in SessionIds :
        StepsOf(sid) = [k \in 1..Len(StepsOf(sid)) |-> k]

\* two messages of session 1 with a message of session 2 logged between them
C24_Witness ==
    /\ Len(tbl_messages) = 3
    /\ tbl_messages[1].session_id = 1 /\ tbl_messages[2].session_id = 2
    /\ tbl_messages[3].session_id = 1 /\ tbl_messages[3].step = 2
    /\ lg[1].pc = "idle"

\* C27: When two loggers interleave log_message calls on one session, no two
\* messages of that session get the same step.
C27_NoDuplicateStep ==
    \A a, b \in 1..Len(tbl_messages) :
        (a # b /\ tbl_messages[a].session_id = tbl_messages[b].session_id)
            => tbl_messages[a].step # tbl_messages[b].step

\* the messages logged to the session of interactive_session
Logged == SelectSeq(tbl_messages, LAMBDA row : row.session_id = ses.session_id)

\* C25: In interactive_session the i-th logged message (from 0) has role
\* 'user' for even i and 'assistant' for odd i; an empty input and a /note
\* command log nothing and do not advance the alternation; /end sets
\* finished_at and stops the loop; /quit, EOF and an interrupt stop the loop
\* with the session unfinished.
C25_RolesAlternate ==
    /\ [](ses.pc \in {"loop", "stopped"} =>
            /\ \A k \in 1..Len(Logged) :
                  Logged[k].role =
                      IF (k - 1) % 2 = 0 THEN "user" ELSE "assistant"
            /\ tbl_sessions[ses.session_id].finished_at
                  <=> /\ ses.pc = "stopped" /\ ses.exc = ""
                      /\ StartsWith(ses.user_input, CmdEnd)
            /\ (\/ ses.exc # ""
                \/ ses.user_input = CmdQuit
                \/ StartsWith(ses.user_input, CmdEnd)) => ses.pc = "stopped")
    /\ [][(ses.pc = "loop" /\ ses'.reads > ses.reads /\ ses'.exc = ""
           /\ (ses'.user_input = <<>> \/ StartsWith(ses'.user_input, CmdNote)))
          => /\ tbl_messages' = tbl_messages
             /\ ses'.step_counter = ses.step_counter
             /\ ses'.pc = "loop"]_vars

\* a user message, a note, an assistant message, and /end
C25_Witness ==
    /\ ses.pc = "stopped" /\ ses.exc = "" /\ ses.user_input = CmdEnd
    /\ Len(Logged) = 2
    /\ Logged[1].role = "user" /\ Logged[2].role = "assistant"
    /\ tbl_sessions[ses.session_id].notes = <<"a">>
    /\ tbl_sessions[ses.session_id].finished_at
    /\ Len(tbl_messages) = 3

\* the rows of table chunks attached to the document of the call
Imported == SelectSeq(tbl_chunks, LAMBDA row : row.doc_id = imp.doc_id)

\* C29: import_chunks_to_db is all-or-nothing. If an insert raises, no chunk
\* of the call is committed to table chunks; when the call returns, the
\* count returned is the number of chunks passed in and all of them are
\* committed, in order. Until then none is committed.
C29_AllOrNothing ==
    /\ imp.pc \in {"call", "loop", "raised"} => Imported = <<>>
    /\ imp.pc = "done" =>
          /\ imp.count = Len(imp.chunks)
          /\ Imported = [k \in 1..Len(imp.chunks) |->
                            ChunkRow(imp.doc_id, imp.chunks[k])]
          /\ imp.pending = <<>> /\ ~imp.conn_open

\* the second insert of a call raised after the first had succeeded, and
\* table chunks holds what it held before the call
C29_Witness ==
    /\ imp.pc = "raised" /\ imp.count = 1 /\ Len(imp.chunks) >= 2
    /\ ~imp.conn_open
    /\ Len(tbl_chunks) = 1 /\ Imported = <<>>
=============================================================================
